---- MODULE Spec2Model ----
(***************************************************************************)
(* UnimorphDictionaryVectorizer (deeppavlov/models/morpho_tagger/          *)
(* unimorph.py) as a state machine.                                        *)
(*                                                                         *)
(* A Python str is a sequence of one-character strings, so that split,     *)
(* join, format, lower, sorted and the suffix slices are computed and not  *)
(* assumed.  A dict is a sequence of <<key, value>> pairs in insertion     *)
(* order (the order in which Python iterates it and json writes it).       *)
(* A float vector of _get_word_vector is kept exactly, as the counts and   *)
(* the divisor it was divided by.                                          *)
(***************************************************************************)
EXTENDS Integers, Sequences, FiniteSets, TLC

VARIABLES use_last_word, use_suffixes, min_suffix_count, max_suffix_length,
          status, pos_, pos_features_, pos_codes_, word_indexes_,
          suffix_labels, file, corpus, ret, nlookups

vars == <<use_last_word, use_suffixes, min_suffix_count, max_suffix_length,
          status, pos_, pos_features_, pos_codes_, word_indexes_,
          suffix_labels, file, corpus, ret, nlookups>>

config == <<use_last_word, use_suffixes, min_suffix_count, max_suffix_length>>

-----------------------------------------------------------------------------
(* Bounds of the model.                                                    *)

\* longest training list of the full machine
MaxData == 2
\* longest training list of the fit-only specification
MaxFitData == 5
\* lookups (_get_word_vector or __call__) after a fit or a load
MaxLookups == 1
\* sentences in a batch, words in a sentence
MaxBatch == 1
MaxSent == 2

-----------------------------------------------------------------------------
(* Python strings.                                                         *)

Range(s) == {s[i] : i \in 1..Len(s)}

Min(a, b) == IF a < b THEN a ELSE b

\* code points, the order sorted() compares str by
Ord(c) ==
  CASE c = " " -> 32 [] c = "," -> 44
    [] c = "0" -> 48 [] c = "1" -> 49 [] c = "2" -> 50 [] c = "3" -> 51
    [] c = "4" -> 52 [] c = "5" -> 53 [] c = "6" -> 54 [] c = "7" -> 55
    [] c = "8" -> 56 [] c = "9" -> 57
    [] c = ";" -> 59 [] c = "A" -> 65 [] c = "B" -> 66 [] c = "_" -> 95
    [] c = "a" -> 97 [] c = "b" -> 98 [] c = "c" -> 99

IsUpperChar(c) == c \in {"A", "B"}
IsCasedChar(c) == c \in {"A", "B", "a", "b", "c"}
LowerChar(c) == CASE c = "A" -> "a" [] c = "B" -> "b" [] OTHER -> c

\* str.lower()
Lower(s) == [i \in 1..Len(s) |-> LowerChar(s[i])]

\* str.islower(): at least one cased character and no uppercase one
IsLower(s) ==
  /\ \E i \in 1..Len(s) : IsCasedChar(s[i])
  /\ \A i \in 1..Len(s) : ~IsUpperChar(s[i])

\* s < t for str
RECURSIVE StrLess(_, _)
StrLess(s, t) ==
  IF s = <<>> THEN t # <<>>
  ELSE IF t = <<>> THEN FALSE
  ELSE IF s[1] = t[1] THEN StrLess(Tail(s), Tail(t))
  ELSE Ord(s[1]) < Ord(t[1])

\* sorted(set of str)
RECURSIVE Sorted(_)
Sorted(S) ==
  IF S = {} THEN <<>>
  ELSE LET m == CHOOSE x \in S : \A y \in S \ {x} : StrLess(x, y)
       IN  <<m>> \o Sorted(S \ {m})

\* s.split(sep) for a one-character sep: empty fields are kept
RECURSIVE Split(_, _)
Split(s, sep) ==
  IF \A i \in 1..Len(s) : s[i] # sep THEN <<s>>
  ELSE LET i == CHOOSE k \in 1..Len(s) :
                  s[k] = sep /\ \A m \in 1..(k - 1) : s[m] # sep
       IN  <<SubSeq(s, 1, i - 1)>> \o Split(SubSeq(s, i + 1, Len(s)), sep)

\* s.split(): runs of whitespace separate, empty fields are dropped
RECURSIVE SplitWs(_)
SplitWs(s) ==
  IF s = <<>> THEN <<>>
  ELSE IF s[1] = " " THEN SplitWs(Tail(s))
  ELSE LET n == CHOOSE k \in 1..Len(s) :
                  /\ \A m \in 1..k : s[m] # " "
                  /\ (k = Len(s) \/ s[k + 1] = " ")
       IN  <<SubSeq(s, 1, n)>> \o SplitWs(SubSeq(s, n + 1, Len(s)))

\* sep.join(parts)
RECURSIVE Join(_, _)
Join(parts, sep) ==
  IF parts = <<>> THEN <<>>
  ELSE IF Len(parts) = 1 THEN parts[1]
  ELSE parts[1] \o <<sep>> \o Join(Tail(parts), sep)

Digits == <<"0", "1", "2", "3", "4", "5", "6", "7", "8", "9">>

\* str(n) for n >= 0
RECURSIVE Str(_)
Str(n) ==
  IF n < 10 THEN <<Digits[n + 1]>>
  ELSE Str(n \div 10) \o <<Digits[(n % 10) + 1]>>

\* int(s) accepts s: a non-empty run of digits (save writes nothing else
\* that int accepts); int raises ValueError on the rest, "" included
IsInt(s) == s # <<>> /\ \A i \in 1..Len(s) : s[i] \in Range(Digits)

DigitValue(c) == Ord(c) - Ord("0")

RECURSIVE ParseInt(_)
ParseInt(s) ==
  IF Len(s) = 1 THEN DigitValue(s[1])
  ELSE 10 * ParseInt(SubSeq(s, 1, Len(s) - 1)) + DigitValue(s[Len(s)])

\* word[-n:] for 1 <= n <= len(word)
Suffix(word, n) == SubSeq(word, Len(word) - n + 1, Len(word))

-----------------------------------------------------------------------------
(* Python dicts, in insertion order.                                       *)

Keys(d) == {d[i][1] : i \in 1..Len(d)}

Has(d, k) == k \in Keys(d)

Get(d, k) == d[CHOOSE i \in 1..Len(d) : d[i][1] = k][2]

\* d[k] = v
Put(d, k, v) ==
  IF Has(d, k) THEN [i \in 1..Len(d) |-> IF d[i][1] = k THEN <<k, v>> ELSE d[i]]
  ELSE Append(d, <<k, v>>)

\* d.get(k, [])
GetOr(d, k) == IF Has(d, k) THEN Get(d, k) ELSE <<>>

\* defaultdict(list): reading d[k] inserts k with [] when k is missing
Touch(d, k) == IF Has(d, k) THEN d ELSE Append(d, <<k, <<>>>>)

\* defaultdict(int): d[k] += 1
Incr(d, k) == IF Has(d, k) THEN Put(d, k, Get(d, k) + 1) ELSE Append(d, <<k, 1>>)

\* {x: i for i, x in enumerate(seq)}: a repeated x keeps its last index
Enumerate(seq) ==
  [x \in Range(seq) |->
     (CHOOSE i \in 1..Len(seq) :
        seq[i] = x /\ \A j \in (i + 1)..Len(seq) : seq[j] # x) - 1]

-----------------------------------------------------------------------------
(* Tags and fit.                                                           *)

\* "{}_{}".format(pos, x)
Format(pos, x) == pos \o <<"_">> \o x

tag_to_features(tag) ==
  LET parts == Split(tag, ";")
      pos   == parts[1]
  IN  [i \in 1..Len(parts) |-> IF i = 1 THEN pos ELSE Format(pos, parts[i])]

tag_to_indexes(codes, tag) ==
  LET features == tag_to_features(tag)
  IN  [i \in 1..Len(features) |-> codes[features[i]]]

\* first pass of fit: the two label sets
fit_pos_tags(data) == {tag_to_features(data[i][3])[1] : i \in 1..Len(data)}

fit_pos_features(data) ==
  UNION {Range(Tail(tag_to_features(data[i][3]))) : i \in 1..Len(data)}

\* self.word_indexes_[word].append(tag) over the triples, in order
RECURSIVE fit_group_tags(_, _)
fit_group_tags(data, d) ==
  IF data = <<>> THEN d
  ELSE LET word == data[1][2]
           tag  == data[1][3]
           d1   == Touch(d, word)
       IN  fit_group_tags(Tail(data), Put(d1, word, Append(Get(d1, word), tag)))

\* for tag in tags: counts[tag] += 1
RECURSIVE fit_count_tags(_, _)
fit_count_tags(counts, tags) ==
  IF tags = <<>> THEN counts
  ELSE fit_count_tags(Incr(counts, tags[1]), Tail(tags))

\* the loop over k for one word, from k on; acc = [counts, label_counts]
RECURSIVE fit_count_suffixes(_, _, _, _, _)
fit_count_suffixes(word, tags, k, maxlen, acc) ==
  IF k >= Min(Len(word), maxlen) THEN acc
  ELSE LET suffix == Suffix(word, k + 1)
           inner  == fit_count_tags(GetOr(acc.label_counts, suffix), tags)
       IN  fit_count_suffixes(word, tags, k + 1, maxlen,
             [counts       |-> Incr(acc.counts, suffix),
              label_counts |-> IF tags = <<>> THEN acc.label_counts
                               ELSE Put(acc.label_counts, suffix, inner)])

\* the loop over the words of word_indexes_ (still holding tag strings)
RECURSIVE fit_count_words(_, _, _)
fit_count_words(items, maxlen, acc) ==
  IF items = <<>> THEN acc
  ELSE fit_count_words(Tail(items), maxlen,
         fit_count_suffixes(items[1][1], items[1][2], 0, maxlen, acc))

\* count >= 0.5 * suffix_count
IsMajority(count, suffix_count) == 2 * count >= suffix_count

\* curr_tags of one suffix
fit_curr_tags(suffix_data, suffix_count) ==
  LET kept == SelectSeq(suffix_data, LAMBDA e : IsMajority(e[2], suffix_count))
  IN  [i \in 1..Len(kept) |-> kept[i][1]]

\* the loop that fills suffix_labels
RECURSIVE fit_suffix_labels(_, _, _, _, _)
fit_suffix_labels(items, counts, mincount, codes, labels) ==
  IF items = <<>> THEN labels
  ELSE LET suffix       == items[1][1]
           suffix_count == Get(counts, suffix)
           curr_tags    == fit_curr_tags(items[1][2], suffix_count)
           rest         == Tail(items)
       IN  IF suffix_count < mincount
           THEN fit_suffix_labels(rest, counts, mincount, codes, labels)
           ELSE IF Len(curr_tags) > 0
           THEN fit_suffix_labels(rest, counts, mincount, codes,
                  Put(labels, suffix,
                      [i \in 1..Len(curr_tags) |->
                         tag_to_indexes(codes, curr_tags[i])]))
           ELSE fit_suffix_labels(rest, counts, mincount, codes, labels)

\* word_indexes_[word] = [tag_to_indexes(tag) for tag in tags], every word
fit_word_indexes(grouped, codes) ==
  [r \in 1..Len(grouped) |->
     <<grouped[r][1],
       [i \in 1..Len(grouped[r][2]) |-> tag_to_indexes(codes, grouped[r][2][i])]>>]

\* fit(data): the attributes it leaves
fit(data, suffixes, mincount, maxlen, old_labels) ==
  LET pos      == Sorted(fit_pos_tags(data))
      features == Sorted(fit_pos_features(data))
      codes    == Enumerate(pos \o features)
      grouped  == fit_group_tags(data, <<>>)
      acc      == fit_count_words(grouped, maxlen,
                                  [counts |-> <<>>, label_counts |-> <<>>])
  IN  [pos_          |-> pos,
       pos_features_ |-> features,
       pos_codes_    |-> codes,
       word_indexes_ |-> fit_word_indexes(grouped, codes),
       suffix_labels |-> IF suffixes
                         THEN fit_suffix_labels(acc.label_counts, acc.counts,
                                                mincount, codes, <<>>)
                         ELSE old_labels]

dim(pos, features) == Len(pos) + Len(features)

-----------------------------------------------------------------------------
(* save and load.  The file is the dict save hands to json.dump; json      *)
(* writes and reads back lists and dicts of str unchanged, so the model    *)
(* keeps that dict and computes the str encoding save and load do          *)
(* themselves.                                                             *)

NoFile == [exists |-> FALSE]

\* ",".join(map(str, elem))
save_vector(elem) == Join([i \in 1..Len(elem) |-> Str(elem[i])], ",")

\* ";".join(",".join(map(str, elem)) for elem in word_indexes)
save_vectors(vectors) ==
  Join([i \in 1..Len(vectors) |-> save_vector(vectors[i])], ";")

save_table(d) == [i \in 1..Len(d) |-> <<d[i][1], save_vectors(d[i][2])>>]

save(pos, features, indexes, labels, suffixes) ==
  [exists            |-> TRUE,
   pos               |-> pos,
   features          |-> features,
   word_indexes      |-> save_table(indexes),
   has_suffix_labels |-> suffixes,
   suffix_labels     |-> IF suffixes THEN save_table(labels) ELSE <<>>]

\* int() accepts every field of x.split(",") for every x of elem.split(";")
load_accepts(elem) ==
  \A x \in Range(Split(elem, ";")) : \A y \in Range(Split(x, ",")) : IsInt(y)

\* [list(map(int, x.split(","))) for x in elem.split(";")]
load_vectors(elem) ==
  LET xs == Split(elem, ";")
  IN  [i \in 1..Len(xs) |->
         LET ys == Split(xs[i], ",")
         IN  [j \in 1..Len(ys) |-> ParseInt(ys[j])]]

\* the loop over data[...].items(); a ValueError leaves the entries so far
RECURSIVE load_table(_, _)
load_table(items, d) ==
  IF items = <<>> THEN [err |-> "none", table |-> d]
  ELSE IF ~load_accepts(items[1][2]) THEN [err |-> "ValueError", table |-> d]
  ELSE load_table(Tail(items), Put(d, items[1][1], load_vectors(items[1][2])))

\* load(): the attributes it leaves, and the exception it ends with
load(f, suffixes, old_labels) ==
  LET words  == load_table(f.word_indexes, <<>>)
      labels == load_table(f.suffix_labels, <<>>)
      err    == IF words.err # "none" THEN words.err
                ELSE IF ~suffixes THEN "none"
                ELSE IF ~f.has_suffix_labels THEN "KeyError"
                ELSE labels.err
  IN  [err           |-> err,
       pos_          |-> f.pos,
       pos_features_ |-> f.features,
       pos_codes_    |-> Enumerate(f.pos \o f.features),
       word_indexes_ |-> words.table,
       suffix_labels |-> IF words.err # "none" \/ ~suffixes THEN old_labels
                         ELSE IF ~f.has_suffix_labels THEN <<>>
                         ELSE labels.table]

-----------------------------------------------------------------------------
(* _get_word_vector and __call__.                                          *)

\* np.zeros(shape=(n,)): components 0..n-1
Zeros(n) == [k \in 0..(n - 1) |-> 0]

\* answer[vector] += 1.0: every index that occurs in vector gains 1, once
add_vector(counts, vector) ==
  [k \in DOMAIN counts |-> IF k \in Range(vector) THEN counts[k] + 1 ELSE counts[k]]

\* for vector in vectors: answer[vector] += 1.0
RECURSIVE add_vectors(_, _)
add_vectors(counts, vectors) ==
  IF vectors = <<>> THEN counts
  ELSE add_vectors(add_vector(counts, vectors[1]), Tail(vectors))

\* average with the division by len(vectors) left out
average_undivided(n, vectors) ==
  [counts |-> add_vectors(Zeros(n), vectors), divisor |-> 1]

\* the float vector counts / divisor
average(n, vectors) ==
  IF Len(vectors) > 0
  THEN [counts |-> add_vectors(Zeros(n), vectors), divisor |-> Len(vectors)]
  ELSE [counts |-> Zeros(n), divisor |-> 1]

\* the loop over k: the lookup of the last k is the one that stays
RECURSIVE suffix_vectors(_, _, _, _, _)
suffix_vectors(labels, word, k, maxlen, vectors) ==
  IF k >= Min(Len(word), maxlen) THEN vectors
  ELSE suffix_vectors(labels, word, k + 1, maxlen,
                      GetOr(labels, Suffix(word, k + 1)))

HasSpace(word) == \E i \in 1..Len(word) : word[i] = " "

\* _get_word_vector with the suffix table consulted whatever the earlier
\* tables gave
get_word_vector_eager(indexes, labels, n, last_word, suffixes, maxlen, word) ==
  LET d1  == Touch(indexes, word)
      v1  == Get(d1, word)
      c2  == Len(v1) = 0 /\ ~IsLower(word)
      d2  == IF c2 THEN Touch(d1, Lower(word)) ELSE d1
      v2  == IF c2 THEN Get(d2, Lower(word)) ELSE v1
      c3  == last_word /\ Len(v2) = 0 /\ HasSpace(word)
      tok == SplitWs(word)
      bad == c3 /\ tok = <<>>
      d3  == IF c3 /\ ~bad THEN Touch(d2, tok[Len(tok)]) ELSE d2
      v3  == IF c3 /\ ~bad THEN Get(d3, tok[Len(tok)]) ELSE v2
      c4  == suffixes
      v4  == IF c4 THEN suffix_vectors(labels, word, 0, maxlen, v3) ELSE v3
      ran == c4 /\ Min(Len(word), maxlen) > 0
      t1  == <<<<"exact", v1>>>>
      t2  == IF c2 THEN Append(t1, <<"lower", v2>>) ELSE t1
      t3  == IF c3 /\ ~bad THEN Append(t2, <<"last", v3>>) ELSE t2
      t4  == IF ran THEN Append(t3, <<"suffix", v4>>) ELSE t3
  IN  IF bad
      THEN [err |-> "IndexError", word_indexes_ |-> d2, trail |-> t2,
            vectors |-> v2, answer |-> average(n, <<>>)]
      ELSE [err |-> "none", word_indexes_ |-> d3, trail |-> t4,
            vectors |-> v4, answer |-> average(n, v4)]

\* _get_word_vector(word).  trail lists the tables consulted, in order, each
\* with the vectors it gave; err is the exception the call ends with.
get_word_vector(indexes, labels, n, last_word, suffixes, maxlen, word) ==
  LET d1  == Touch(indexes, word)
      v1  == Get(d1, word)
      c2  == Len(v1) = 0 /\ ~IsLower(word)
      d2  == IF c2 THEN Touch(d1, Lower(word)) ELSE d1
      v2  == IF c2 THEN Get(d2, Lower(word)) ELSE v1
      c3  == last_word /\ Len(v2) = 0 /\ HasSpace(word)
      tok == SplitWs(word)
      bad == c3 /\ tok = <<>>
      d3  == IF c3 /\ ~bad THEN Touch(d2, tok[Len(tok)]) ELSE d2
      v3  == IF c3 /\ ~bad THEN Get(d3, tok[Len(tok)]) ELSE v2
      c4  == suffixes /\ Len(v3) = 0
      v4  == IF c4 THEN suffix_vectors(labels, word, 0, maxlen, v3) ELSE v3
      ran == c4 /\ Min(Len(word), maxlen) > 0
      t1  == <<<<"exact", v1>>>>
      t2  == IF c2 THEN Append(t1, <<"lower", v2>>) ELSE t1
      t3  == IF c3 /\ ~bad THEN Append(t2, <<"last", v3>>) ELSE t2
      t4  == IF ran THEN Append(t3, <<"suffix", v4>>) ELSE t3
  IN  IF bad
      THEN [err |-> "IndexError", word_indexes_ |-> d2, trail |-> t2,
            vectors |-> v2, answer |-> average(n, <<>>)]
      ELSE [err |-> "none", word_indexes_ |-> d3, trail |-> t4,
            vectors |-> v4, answer |-> average(n, v4)]

\* a float vector stored into the int array: numpy truncates
to_int(answer) ==
  [k \in DOMAIN answer.counts |-> answer.counts[k] \div answer.divisor]

\* max(len(x) for x in data)
max_length(data) ==
  CHOOSE m \in {Len(data[i]) : i \in 1..Len(data)} :
    \A i \in 1..Len(data) : Len(data[i]) <= m

\* the two loops of __call__ from position (i, j) on, the table and the
\* answer threaded through; an exception of _get_word_vector ends them
RECURSIVE call_loop(_, _, _, _, _, _, _, _, _, _)
call_loop(data, i, j, indexes, labels, n, last_word, suffixes, maxlen, out) ==
  IF i > Len(data) THEN [err |-> "none", word_indexes_ |-> indexes, out |-> out]
  ELSE IF j > Len(data[i])
  THEN call_loop(data, i + 1, 1, indexes, labels, n, last_word, suffixes, maxlen, out)
  ELSE LET r == get_word_vector(indexes, labels, n, last_word, suffixes, maxlen,
                                data[i][j])
       IN  IF r.err # "none"
           THEN [err |-> r.err, word_indexes_ |-> r.word_indexes_, out |-> <<>>]
           ELSE call_loop(data, i, j + 1, r.word_indexes_, labels, n, last_word,
                          suffixes, maxlen,
                          [out EXCEPT ![i][j] = to_int(r.answer)])

\* __call__(data)
call(data, indexes, labels, n, last_word, suffixes, maxlen) ==
  IF data = <<>>
  THEN [err |-> "ValueError", word_indexes_ |-> indexes, out |-> <<>>]
  ELSE call_loop(data, 1, 1, indexes, labels, n, last_word, suffixes, maxlen,
                 [i \in 1..Len(data) |-> [j \in 1..max_length(data) |-> Zeros(n)]])

-----------------------------------------------------------------------------
(* The inputs the model draws from.                                        *)

SeqsUpTo(S, n) == UNION {[1..k -> S] : k \in 0..n}

Lemmas == {<<"a">>}

\* "ab" and "b"
TrainWords == {<<"a", "b">>, <<"b">>}

\* "A;B", "A_B" and "B;B;A"
TrainTags == {<<"A", ";", "B">>, <<"A", "_", "B">>, <<"B", ";", "B", ";", "A">>}

Triples == Lemmas \X TrainWords \X TrainTags

\* the words and tags of the fit-only specification: "ab", "b" and "Bb",
\* "A;B" and "B;B;A"
FitWords == TrainWords \cup {<<"B", "b">>}

FitTags == {<<"A", ";", "B">>, <<"B", ";", "B", ";", "A">>}

FitTriples == Lemmas \X FitWords \X FitTags

\* "", " ", "ab", "Ab", "cb" and "c ab"
LookupWords == {<<>>, <<" ">>, <<"a", "b">>, <<"A", "b">>, <<"c", "b">>,
                <<"c", " ", "a", "b">>}

\* "ab" and "cb"
CallWords == {<<"a", "b">>, <<"c", "b">>}

Batches == SeqsUpTo(SeqsUpTo(CallWords, MaxSent), MaxBatch)

\* the keyword arguments of __init__: the defaults, or suffixes switched on
\* with small thresholds
Configs ==
  {c \in [use_last_word : BOOLEAN, use_suffixes : BOOLEAN,
          min_suffix_count : {1, 2, 10}, max_suffix_length : {1, 2, 5}] :
     IF c.use_suffixes
     THEN c.min_suffix_count \in {1, 2} /\ c.max_suffix_length \in {1, 2}
     ELSE c.min_suffix_count = 10 /\ c.max_suffix_length = 5}

-----------------------------------------------------------------------------
(* The state machine.                                                      *)

NoRet == [op |-> "none", err |-> "none"]

\* __init__ with no file at load_path: no attribute of fit or load exists yet
InitWith(triples, maxdata) ==
  /\ \E c \in Configs :
       /\ use_last_word = c.use_last_word
       /\ use_suffixes = c.use_suffixes
       /\ min_suffix_count = c.min_suffix_count
       /\ max_suffix_length = c.max_suffix_length
  /\ corpus \in SeqsUpTo(triples, maxdata)
  /\ status = "new"
  /\ pos_ = <<>>
  /\ pos_features_ = <<>>
  /\ pos_codes_ = <<>>
  /\ word_indexes_ = <<>>
  /\ suffix_labels = <<>>
  /\ file = NoFile
  /\ ret = NoRet
  /\ nlookups = 0

Init == InitWith(Triples, MaxData)

InitFit == InitWith(FitTriples, MaxFitData)

Fit ==
  LET r == fit(corpus, use_suffixes, min_suffix_count, max_suffix_length,
               suffix_labels)
  IN  /\ pos_' = r.pos_
      /\ pos_features_' = r.pos_features_
      /\ pos_codes_' = r.pos_codes_
      /\ word_indexes_' = r.word_indexes_
      /\ suffix_labels' = r.suffix_labels
      /\ status' = "fit"
      /\ ret' = NoRet
      /\ nlookups' = 0
      /\ UNCHANGED <<config, file, corpus>>

\* before fit or load save raises AttributeError and writes nothing
Save ==
  /\ status # "new"
  /\ file' = save(pos_, pos_features_, word_indexes_, suffix_labels, use_suffixes)
  /\ ret' = NoRet
  /\ UNCHANGED <<config, status, pos_, pos_features_, pos_codes_, word_indexes_,
                 suffix_labels, corpus, nlookups>>

\* with no file open() raises and load changes nothing
Load ==
  /\ file.exists
  /\ LET r == load(file, use_suffixes, suffix_labels)
     IN  /\ pos_' = r.pos_
         /\ pos_features_' = r.pos_features_
         /\ pos_codes_' = r.pos_codes_
         /\ word_indexes_' = r.word_indexes_
         /\ suffix_labels' = r.suffix_labels
         /\ status' = IF r.err = "none" THEN "loaded" ELSE "load_failed"
         /\ ret' = [op |-> "load", err |-> r.err]
  /\ UNCHANGED <<config, file, corpus, nlookups>>

GetWordVector(word) ==
  /\ status # "new"
  /\ nlookups < MaxLookups
  /\ LET r == get_word_vector(word_indexes_, suffix_labels,
                              dim(pos_, pos_features_), use_last_word,
                              use_suffixes, max_suffix_length, word)
     IN  /\ word_indexes_' = r.word_indexes_
         /\ ret' = [op |-> "get", err |-> r.err, word |-> word,
                    trail |-> r.trail, vectors |-> r.vectors,
                    answer |-> r.answer]
  /\ nlookups' = nlookups + 1
  /\ UNCHANGED <<config, status, pos_, pos_features_, pos_codes_, suffix_labels,
                 file, corpus>>

Call(data) ==
  /\ status # "new"
  /\ nlookups < MaxLookups
  /\ LET r == call(data, word_indexes_, suffix_labels, dim(pos_, pos_features_),
                   use_last_word, use_suffixes, max_suffix_length)
     IN  /\ word_indexes_' = r.word_indexes_
         /\ ret' = [op |-> "call", err |-> r.err, data |-> data, out |-> r.out]
  /\ nlookups' = nlookups + 1
  /\ UNCHANGED <<config, status, pos_, pos_features_, pos_codes_, suffix_labels,
                 file, corpus>>

Next ==
  \/ Fit
  \/ Save
  \/ Load
  \/ \E word \in LookupWords : GetWordVector(word)
  \/ \E data \in Batches : Call(data)

Spec == Init /\ [][Next]_vars

\* fit and _get_word_vector alone.  __call__ acts on the tables as its
\* _get_word_vector calls in sequence do, and load leaves tables that fit
\* and the lookups reach without it: the saved ones when it succeeds, the
\* entries ahead of the first empty one, which are those of fit, when not.
NextWord ==
  \/ Fit
  \/ \E word \in LookupWords : GetWordVector(word)

SpecWord == Init /\ [][NextWord]_vars

\* fit alone, on longer training lists
NextFit == Fit

SpecFit == InitFit /\ [][NextFit]_vars

-----------------------------------------------------------------------------
(* What the claims speak of.                                               *)

TrainedWords == {corpus[i][2] : i \in 1..Len(corpus)}

TrainedTags == {corpus[i][3] : i \in 1..Len(corpus)}

\* the distinct tags a word was observed with
TagsOf(word) == {corpus[i][3] : i \in {k \in 1..Len(corpus) : corpus[k][2] = word}}

Dim == dim(pos_, pos_features_)

\* _get_word_vector(word) in the current state
Lookup(word) ==
  get_word_vector(word_indexes_, suffix_labels, Dim, use_last_word, use_suffixes,
                  max_suffix_length, word)

MaxOf(S) == CHOOSE m \in S : \A x \in S : x <= m

\* no vectors for the word, its lowercase form or, if enabled, its last token
NoWordVectors(word) ==
  /\ GetOr(word_indexes_, word) = <<>>
  /\ GetOr(word_indexes_, Lower(word)) = <<>>
  /\ (use_last_word /\ HasSpace(word) /\ SplitWs(word) # <<>>)
       => GetOr(word_indexes_, SplitWs(word)[Len(SplitWs(word))]) = <<>>

\* the lengths 1..min(len(word), max_suffix_length) whose suffix is a key
MatchingLengths(word) ==
  {n \in 1..Min(Len(word), max_suffix_length) : Has(suffix_labels, Suffix(word, n))}

\* C1: when suffix fallback is enabled and _get_word_vector reaches it, the
\* vectors used are those of the longest suffix of the word that is a key of
\* suffix_labels, and if some suffix is a key the result is not the zero vector.
C1_LongestMatchingSuffix ==
  (/\ ret.op = "get"
   /\ ret.err = "none"
   /\ use_suffixes
   /\ NoWordVectors(ret.word)
   /\ MatchingLengths(ret.word) # {})
  => /\ ret.vectors =
          Get(suffix_labels, Suffix(ret.word, MaxOf(MatchingLengths(ret.word))))
     /\ \E k \in DOMAIN ret.answer.counts : ret.answer.counts[k] > 0

\* C2: after fit or load and any lookups, save() then load() succeeds and
\* leaves word_indexes_ (and suffix_labels, with use_suffixes) with the same
\* contents as before the save.
C2_SaveLoadRoundTrip ==
  status \in {"fit", "loaded"} =>
    LET f == save(pos_, pos_features_, word_indexes_, suffix_labels, use_suffixes)
        r == load(f, use_suffixes, suffix_labels)
    IN  /\ r.err = "none"
        /\ Range(r.word_indexes_) = Range(word_indexes_)
        /\ use_suffixes => Range(r.suffix_labels) = Range(suffix_labels)

\* the number of the vectors that contain index k
Containing(vectors, k) ==
  Cardinality({i \in 1..Len(vectors) : k \in Range(vectors[i])})

\* C3: answer[i][j] of __call__ is the average of the one-hot encodings of the
\* index vectors of data[i][j]: component k is (number of the vectors that
\* contain k) / (number of the vectors).
C3_CallAverages ==
  (ret.op = "call" /\ ret.err = "none") =>
    \A i \in 1..Len(ret.data) : \A j \in 1..Len(ret.data[i]) :
      LET vectors == Lookup(ret.data[i][j]).vectors
      IN  Len(vectors) > 0 =>
            \A k \in 0..(Dim - 1) :
              ret.out[i][j][k] * Len(vectors) = Containing(vectors, k)

\* C4: after fit, pos_codes_[(pos_ + pos_features_)[i]] = i for every i in
\* 0..dim-1: the code map is a bijection between the vocabulary and 0..dim-1.
C4_CodesAreIndexes ==
  status = "fit" =>
    \A i \in 0..(Dim - 1) : pos_codes_[(pos_ \o pos_features_)[i + 1]] = i

\* C5: after fit, word_indexes_[word] of every training word holds exactly one
\* index vector per distinct tag the word was observed with.
C5_OneVectorPerTag ==
  status = "fit" =>
    \A word \in TrainedWords :
      /\ Has(word_indexes_, word)
      /\ Len(Get(word_indexes_, word)) = Cardinality(TagsOf(word))
      /\ \A tag \in TagsOf(word) :
           tag_to_indexes(pos_codes_, tag) \in Range(Get(word_indexes_, word))

\* suffixes of length 1..max_suffix_length of the training words
TrainedSuffixes ==
  UNION {{Suffix(w, n) : n \in 1..Min(Len(w), max_suffix_length)} : w \in TrainedWords}

\* the training words that end in s, and the triples of these words
WordsWith(s) == {w \in TrainedWords : Len(s) <= Len(w) /\ Suffix(w, Len(s)) = s}

TriplesWith(s) == {i \in 1..Len(corpus) : corpus[i][2] \in WordsWith(s)}

\* tag accounts for at least half of the occurrences of s, be an occurrence
\* a training word that ends in s or a triple of such a word
AccountsForHalf(s, tag) ==
  \/ 2 * Cardinality({w \in WordsWith(s) : tag \in TagsOf(w)})
       >= Cardinality(WordsWith(s))
  \/ 2 * Cardinality({i \in TriplesWith(s) : corpus[i][3] = tag})
       >= Cardinality(TriplesWith(s))

\* C6: after fit with use_suffixes, every key s of suffix_labels is a suffix of
\* length 1..max_suffix_length of a training word, occurred at least
\* min_suffix_count times, and every vector under s comes from a tag that
\* accounts for at least 50% of the occurrences of s; a suffix that fails the
\* count or the majority condition is no key.
C6_SuffixLabelsAreMajority ==
  (status = "fit" /\ use_suffixes) =>
    /\ Keys(suffix_labels) \subseteq TrainedSuffixes
    /\ \A s \in Keys(suffix_labels) :
         /\ Cardinality(TriplesWith(s)) >= min_suffix_count
         /\ \A v \in Range(Get(suffix_labels, s)) :
              \E tag \in TrainedTags :
                v = tag_to_indexes(pos_codes_, tag) /\ AccountsForHalf(s, tag)
    /\ \A s \in TrainedSuffixes :
         (\/ Cardinality(TriplesWith(s)) < min_suffix_count
          \/ \A tag \in TrainedTags : ~AccountsForHalf(s, tag))
         => ~Has(suffix_labels, s)

StageRank(stage) ==
  CASE stage = "exact" -> 1 [] stage = "lower" -> 2 [] stage = "last" -> 3
    [] stage = "suffix" -> 4

\* C7: the tables are consulted in the order exact word, lowercase form, last
\* token (only with use_last_word), suffix (only with use_suffixes), a later
\* one only when every earlier one gave no vectors; a word that has vectors in
\* word_indexes_, or whose lowercase form has, gets them and not the suffix's.
C7_FallbackOrder ==
  ret.op = "get" =>
    /\ ret.trail[1][1] = "exact"
    /\ \A i \in 2..Len(ret.trail) :
         /\ StageRank(ret.trail[i - 1][1]) < StageRank(ret.trail[i][1])
         /\ \A h \in 1..(i - 1) : ret.trail[h][2] = <<>>
    /\ \A i \in 1..Len(ret.trail) :
         /\ ret.trail[i][1] = "last" => use_last_word
         /\ ret.trail[i][1] = "suffix" => use_suffixes
    /\ GetOr(word_indexes_, ret.word) # <<>>
         => ret.vectors = Get(word_indexes_, ret.word)
    /\ (GetOr(word_indexes_, ret.word) = <<>>
        /\ GetOr(word_indexes_, Lower(ret.word)) # <<>>)
         => ret.vectors = Get(word_indexes_, Lower(ret.word))

\* a lookup answered by the lowercase form of a word one of whose suffixes is
\* a key of suffix_labels
C7_Witness ==
  /\ ret.op = "get"
  /\ use_suffixes
  /\ GetOr(word_indexes_, ret.word) = <<>>
  /\ GetOr(word_indexes_, Lower(ret.word)) # <<>>
  /\ MatchingLengths(ret.word) # {}
  /\ ret.vectors = Get(word_indexes_, Lower(ret.word))

\* matches nothing: no vectors by exact form, lowercase form or last token,
\* and no suffix that is a key
MatchesNothing(word) ==
  /\ GetOr(word_indexes_, word) = <<>>
  /\ GetOr(word_indexes_, Lower(word)) = <<>>
  /\ SplitWs(word) # <<>>
       => GetOr(word_indexes_, SplitWs(word)[Len(SplitWs(word))]) = <<>>
  /\ \A n \in 1..Len(word) : ~Has(suffix_labels, Suffix(word, n))

\* C8: for every word that matches nothing, the empty string and strings of
\* spaces included, under every setting of use_last_word and use_suffixes,
\* _get_word_vector returns the zero vector of length dim and raises nothing.
C8_UnseenIsZero ==
  (ret.op = "get" /\ MatchesNothing(ret.word)) =>
    /\ ret.err = "none"
    /\ ret.answer.counts = Zeros(Dim)

RECURSIVE SumUpTo(_, _)
SumUpTo(counts, n) == IF n = 0 THEN 0 ELSE counts[n - 1] + SumUpTo(counts, n - 1)

\* C9: after fit, for every training word, every component of the vector
\* _get_word_vector returns is between 0 and 1, and the components at the
\* indexes of the labels of pos_ sum to at most 1.
C9_TrainedVectorBounded ==
  status = "fit" =>
    \A word \in TrainedWords :
      LET r == Lookup(word)
      IN  /\ r.err = "none"
          /\ DOMAIN r.answer.counts = 0..(Dim - 1)
          /\ \A k \in 0..(Dim - 1) :
               0 <= r.answer.counts[k] /\ r.answer.counts[k] <= r.answer.divisor
          /\ SumUpTo(r.answer.counts, Len(pos_)) <= r.answer.divisor

\* a training word seen with two tags was looked up: components of 1/2
C9_Witness ==
  /\ status = "fit"
  /\ ret.op = "get"
  /\ ret.word \in TrainedWords
  /\ ret.answer = Lookup(ret.word).answer
  /\ ret.answer.divisor = 2
  /\ \E k \in 0..(Dim - 1) : ret.answer.counts[k] = 1

\* C10: lookups leave word_indexes_ unchanged: after fit or load and any
\* lookups its key set is exactly the set of the training words.
C10_LookupsReadOnly ==
  status \in {"fit", "loaded"} => Keys(word_indexes_) = TrainedWords

====
